---------------------------- MODULE Spec2Model ----------------------------
(***************************************************************************)
(* The streaming parse-and-validate pipeline of streamlit_app.py.          *)
(*                                                                         *)
(* A text is a sequence of one-character strings.  A JSON value is a       *)
(* record [t, v]: t is "str", "num", "lit", "arr" or "obj"; v is the       *)
(* characters of a string, number or literal, the sequence of the items    *)
(* of an array, or the function from keys to values of an object (a        *)
(* Python dict).                                                           *)
(*                                                                         *)
(* The texts of Docs hold no backslash escape and no value that starts     *)
(* with "-"; the parsers below leave those two branches out.               *)
(***************************************************************************)
EXTENDS Integers, Sequences, FiniteSets, TLC

\* Largest chunk the chunk source delivers, besides "all the rest at once".
MaxChunk == 3
\* Nesting depth past which the interpreter raises RecursionError.
RecursionLimit == 4

-----------------------------------------------------------------------------
(* Characters *)

QUOTE == "\""
Digit == {"0", "1", "2", "3", "4", "5", "6", "7", "8", "9"}
Blank == {" "}
NumChar == Digit \cup {".", "-", "+", "e", "E"}
NumTail == {".", "-", "+", "e", "E"}

L_null == <<"n", "u", "l", "l">>
L_true == <<"t", "r", "u", "e">>
L_false == <<"f", "a", "l", "s", "e">>
L_Infinity == <<"I", "n", "f", "i", "n", "i", "t", "y">>
L_NaN == <<"N", "a", "N">>
Literals == <<L_null, L_true, L_false, L_Infinity, L_NaN>>

StartsWith(text, p, lit) ==
    /\ p + Len(lit) - 1 <= Len(text)
    /\ SubSeq(text, p, p + Len(lit) - 1) = lit

\* lit.startswith(text[p:])
RestIsPrefixOf(text, p, lit) ==
    /\ Len(text) - p + 1 <= Len(lit)
    /\ SubSeq(text, p, Len(text)) = SubSeq(lit, 1, Len(text) - p + 1)

RECURSIVE skip_blank(_, _)
skip_blank(text, p) ==
    IF p <= Len(text) /\ text[p] \in Blank THEN skip_blank(text, p + 1) ELSE p

\* The position of the first quote at or after q, 0 when there is none.
RECURSIVE str_end(_, _)
str_end(text, q) ==
    IF q > Len(text) THEN 0
    ELSE IF text[q] = QUOTE THEN q
    ELSE str_end(text, q + 1)

\* The first position at or after q whose character is not in S.
RECURSIVE span(_, _, _)
span(text, q, S) ==
    IF q <= Len(text) /\ text[q] \in S THEN span(text, q + 1, S) ELSE q

-----------------------------------------------------------------------------
(* json.loads: the strict decoder.  A result is [exc, val, i]: exc is ""   *)
(* or the exception raised, i the position after the value.                *)

NoVal == [t |-> "lit", v |-> <<>>]
Ok(val, i) == [exc |-> "", val |-> val, i |-> i]
Err(e) == [exc |-> e, val |-> NoVal, i |-> 0]

Put(f, k, x) == [y \in (DOMAIN f) \cup {k} |-> IF y = k THEN x ELSE f[y]]

\* NUMBER_RE: -?(0|[1-9]\d*)(\.\d+)?([eE][-+]?\d+)?, without the sign.
scan_number(text, p) ==
    LET int == IF text[p] = "0" THEN p + 1 ELSE span(text, p, Digit)
        fr  == IF int <= Len(text) /\ text[int] = "."
                  /\ span(text, int + 1, Digit) > int + 1
               THEN span(text, int + 1, Digit) ELSE int
        sg  == IF fr + 1 <= Len(text) /\ text[fr + 1] \in {"+", "-"}
               THEN fr + 2 ELSE fr + 1
        ex  == IF fr <= Len(text) /\ text[fr] \in {"e", "E"}
                  /\ span(text, sg, Digit) > sg
               THEN span(text, sg, Digit) ELSE fr
    IN Ok([t |-> "num", v |-> SubSeq(text, p, ex - 1)], ex)

RECURSIVE scan_literal(_, _, _)
scan_literal(text, p, n) ==
    IF n > Len(Literals) THEN Err("JSONDecodeError")
    ELSE IF StartsWith(text, p, Literals[n])
         THEN Ok([t |-> "lit", v |-> Literals[n]], p + Len(Literals[n]))
         ELSE scan_literal(text, p, n + 1)

RECURSIVE scan_once(_, _, _), scan_array(_, _, _, _), scan_object(_, _, _, _)

\* JSONArray after "[" or ",": p is at the next item, acc holds the items read.
scan_array(text, p, acc, d) ==
    LET r == scan_once(text, skip_blank(text, p), d)
        q == skip_blank(text, r.i)
    IN IF r.exc # "" THEN r
       ELSE IF q > Len(text) THEN Err("JSONDecodeError")
       ELSE IF text[q] = "]" THEN Ok([t |-> "arr", v |-> Append(acc, r.val)], q + 1)
       ELSE IF text[q] = "," THEN scan_array(text, q + 1, Append(acc, r.val), d)
       ELSE Err("JSONDecodeError")

\* JSONObject after "{" or ",": p is at the next key, acc holds the pairs read.
scan_object(text, p, acc, d) ==
    LET k  == skip_blank(text, p)
        ke == IF k <= Len(text) /\ text[k] = QUOTE THEN str_end(text, k + 1) ELSE 0
        c  == skip_blank(text, ke + 1)
        r  == scan_once(text, skip_blank(text, c + 1), d)
        q  == skip_blank(text, r.i)
        o  == Put(acc, SubSeq(text, k + 1, ke - 1), r.val)
    IN IF ke = 0 THEN Err("JSONDecodeError")
       ELSE IF c > Len(text) \/ text[c] # ":" THEN Err("JSONDecodeError")
       ELSE IF r.exc # "" THEN r
       ELSE IF q > Len(text) THEN Err("JSONDecodeError")
       ELSE IF text[q] = "}" THEN Ok([t |-> "obj", v |-> o], q + 1)
       ELSE IF text[q] = "," THEN scan_object(text, q + 1, o, d)
       ELSE Err("JSONDecodeError")

\* scanner.scan_once: one value at p, d containers deep.
scan_once(text, p, d) ==
    IF p > Len(text) THEN Err("JSONDecodeError")
    ELSE IF text[p] = QUOTE THEN
        LET e == str_end(text, p + 1)
        IN IF e = 0 THEN Err("JSONDecodeError")
           ELSE Ok([t |-> "str", v |-> SubSeq(text, p + 1, e - 1)], e + 1)
    ELSE IF text[p] \in {"[", "{"} THEN
        LET q == skip_blank(text, p + 1)
        IN IF d + 1 > RecursionLimit THEN Err("RecursionError")
           ELSE IF q > Len(text) THEN Err("JSONDecodeError")
           ELSE IF text[p] = "[" THEN
                IF text[q] = "]" THEN Ok([t |-> "arr", v |-> <<>>], q + 1)
                ELSE scan_array(text, q, <<>>, d + 1)
           ELSE IF text[q] = "}" THEN Ok([t |-> "obj", v |-> <<>>], q + 1)
                ELSE scan_object(text, q, <<>>, d + 1)
    ELSE IF text[p] \in Digit THEN scan_number(text, p)
    ELSE scan_literal(text, p, 1)

\* json.loads(s): one value, blanks around it, nothing after it.
json_loads(text) ==
    LET r == scan_once(text, skip_blank(text, 1), 0)
    IN IF r.exc # "" THEN r
       ELSE IF skip_blank(text, r.i) <= Len(text) THEN Err("JSONDecodeError")
       ELSE r

-----------------------------------------------------------------------------
(* partial_json_parser.loads(s), every partial type allowed (its default): *)
(* the text is completed (the unfinished tail is cut, the closing tokens   *)
(* are added) and the completed text is handed to json.loads.              *)
(* A completion result is [k, i, c, e]: k is "complete" (the value ends    *)
(* before position i), "incomplete" (keep the text before i and add c)     *)
(* or "raise" (exception e).                                               *)

Complete(i) == [k |-> "complete", i |-> i, c |-> <<>>, e |-> ""]
Incomplete(i, c) == [k |-> "incomplete", i |-> i, c |-> c, e |-> ""]
Raise(e) == [k |-> "raise", i |-> 0, c |-> <<>>, e |-> e]

\* An unfinished string is kept up to the cut and closed.
complete_str(text, p) ==
    IF p > Len(text) THEN Raise("IndexError")
    ELSE IF text[p] # QUOTE THEN Raise("AssertionError")
    ELSE IF str_end(text, p + 1) # 0 THEN Complete(str_end(text, p + 1) + 1)
    ELSE Incomplete(Len(text) + 1, <<QUOTE>>)

\* A number that reaches the end of the text, or ends in one of ".-+eE",
\* may still grow: it is kept without that tail.
complete_num(text, p, is_top_level) ==
    LET fwd == span(text, p + 1, NumChar)
        RECURSIVE back(_)
        back(i) == IF i - 1 > p /\ text[i - 1] \in NumTail THEN back(i - 1) ELSE i
        i == back(fwd)
    IN IF i # fwd \/ (fwd = Len(text) + 1 /\ ~is_top_level)
       THEN Incomplete(i, <<>>)
       ELSE Complete(i)

RECURSIVE complete_literal(_, _, _)
complete_literal(text, p, n) ==
    IF n > Len(Literals) THEN Raise("MalformedJSON")
    ELSE IF StartsWith(text, p, Literals[n]) THEN Complete(p + Len(Literals[n]))
    ELSE IF RestIsPrefixOf(text, p, Literals[n]) THEN Incomplete(p, Literals[n])
    ELSE complete_literal(text, p, n + 1)

RECURSIVE complete_any(_, _, _, _), arr_loop(_, _, _, _), obj_loop(_, _, _, _)

\* One turn of complete_arr's loop: i is the end of the last complete item,
\* j the position reached.  An unfinished last item is kept, completed.
arr_loop_drop(text, i, j, d) ==
    LET j1 == skip_blank(text, j)
        r  == complete_any(text, j1, FALSE, d)
        j2 == skip_blank(text, r.i)
    IN IF j1 > Len(text) THEN Incomplete(i, <<"]">>)
       ELSE IF text[j1] = "]" THEN Complete(j1 + 1)
       ELSE IF r.k = "raise" THEN r
       ELSE IF r.k = "incomplete" THEN Incomplete(i, <<"]">>)
       ELSE IF j2 > Len(text) THEN Incomplete(r.i, <<"]">>)
       ELSE IF text[j2] = "," THEN arr_loop(text, r.i, j2 + 1, d)
       ELSE IF text[j2] = "]" THEN Complete(j2 + 1)
       ELSE Raise("MalformedJSON")

arr_loop(text, i, j, d) ==
    LET j1 == skip_blank(text, j)
        r  == complete_any(text, j1, FALSE, d)
        j2 == skip_blank(text, r.i)
    IN IF j1 > Len(text) THEN Incomplete(i, <<"]">>)
       ELSE IF text[j1] = "]" THEN Complete(j1 + 1)
       ELSE IF r.k = "raise" THEN r
       ELSE IF r.k = "incomplete" THEN Incomplete(r.i, r.c \o <<"]">>)
       ELSE IF j2 > Len(text) THEN Incomplete(r.i, <<"]">>)
       ELSE IF text[j2] = "," THEN arr_loop(text, r.i, j2 + 1, d)
       ELSE IF text[j2] = "]" THEN Complete(j2 + 1)
       ELSE Raise("MalformedJSON")

\* One turn of complete_obj's loop.  An unfinished key, or a key whose
\* value has not begun, is dropped; an unfinished value is kept, completed.
obj_loop(text, i, j, d) ==
    LET j1 == skip_blank(text, j)
        k  == complete_str(text, j1)
        j2 == skip_blank(text, k.i)
        j3 == skip_blank(text, j2 + 1)
        r  == IF j3 > Len(text) THEN Raise("IndexError")
              ELSE complete_any(text, j3, FALSE, d)
        j4 == skip_blank(text, r.i)
    IN IF j1 > Len(text) THEN Incomplete(i, <<"}">>)
       ELSE IF text[j1] = "}" THEN Complete(j1 + 1)
       ELSE IF k.k = "raise" THEN k
       ELSE IF k.k # "complete" THEN Incomplete(i, <<"}">>)
       ELSE IF j2 > Len(text) THEN Incomplete(i, <<"}">>)
       ELSE IF text[j2] # ":" THEN Raise("MalformedJSON")
       ELSE IF r.k = "raise" /\ r.e = "IndexError" THEN Incomplete(i, <<"}">>)
       ELSE IF r.k = "raise" THEN r
       ELSE IF r.k = "incomplete" THEN Incomplete(r.i, r.c \o <<"}">>)
       ELSE IF j4 > Len(text) THEN Incomplete(r.i, <<"}">>)
       ELSE IF text[j4] = "," THEN obj_loop(text, r.i, j4 + 1, d)
       ELSE IF text[j4] = "}" THEN Complete(j4 + 1)
       ELSE Raise("MalformedJSON")

complete_arr(text, p, d) ==
    IF d + 1 > RecursionLimit THEN Raise("RecursionError")
    ELSE arr_loop(text, p + 1, p + 1, d + 1)

complete_obj(text, p, d) ==
    IF d + 1 > RecursionLimit THEN Raise("RecursionError")
    ELSE obj_loop(text, p + 1, p + 1, d + 1)

complete_any(text, p, is_top_level, d) ==
    IF skip_blank(text, p) > Len(text) THEN Raise("IndexError")
    ELSE IF text[p] = QUOTE THEN complete_str(text, p)
    ELSE IF text[p] \in Digit THEN complete_num(text, p, is_top_level)
    ELSE IF text[p] = "[" THEN complete_arr(text, p, d)
    ELSE IF text[p] = "{" THEN complete_obj(text, p, d)
    ELSE complete_literal(text, p, 1)

\* fix: the text to keep and the completion; IndexError and AssertionError
\* leave as MalformedJSON.
fix(text) ==
    LET r == complete_any(text, 1, TRUE, 0)
    IN IF r.k = "raise"
       THEN [exc |-> IF r.e \in {"IndexError", "AssertionError"}
                     THEN "MalformedJSON" ELSE r.e,
             text |-> <<>>]
       ELSE [exc |-> "", text |-> SubSeq(text, 1, r.i - 1) \o r.c]

\* The completed text, decoded.
decode_fixed(fixed) ==
    IF fixed.exc # "" THEN Err(fixed.exc) ELSE json_loads(fixed.text)

partial_json_parser_loads(text) == decode_fixed(fix(text))

-----------------------------------------------------------------------------
(* EMAIL_SCHEMA.  The top-level dict holds a reference to its "items"     *)
(* dict, which lives in the heap: dict.copy() copies the top level only,   *)
(* so the copy's "items" is the same object.                               *)

F_email_name == <<"e", "m", "a", "i", "l", "_", "n", "a", "m", "e">>
F_sender == <<"s", "e", "n", "d", "e", "r">>
F_subject == <<"s", "u", "b", "j", "e", "c", "t">>
F_preview == <<"p", "r", "e", "v", "i", "e", "w">>
F_body == <<"b", "o", "d", "y">>
F_date == <<"d", "a", "t", "e">>

DATE_PATTERN == "^\\d{4}-\\d{2}-\\d{2}$"

REQUIRED == <<F_email_name, F_sender, F_subject, F_preview, F_body>>

PROPERTIES ==
    [k \in {F_email_name, F_sender, F_subject, F_preview, F_body, F_date} |->
        [type |-> "string", pattern |-> IF k = F_date THEN DATE_PATTERN ELSE ""]]

ITEMS == "EMAIL_SCHEMA.items"

EMAIL_SCHEMA == [type |-> "array", items |-> ITEMS]

InitialHeap ==
    [a \in {ITEMS} |->
        [type |-> "object", properties |-> PROPERTIES, required |-> REQUIRED,
         additionalProperties |-> FALSE]]

\* re.search(pattern, s) for the one pattern the schema holds.
re_search(pattern, s) ==
    IF pattern = DATE_PATTERN
    THEN /\ Len(s) = 10
         /\ \A i \in {1, 2, 3, 4, 6, 7, 9, 10} : s[i] \in Digit
         /\ s[5] = "-" /\ s[8] = "-"
    ELSE TRUE

is_type(val, type) ==
    CASE type = "array" -> val.t = "arr"
      [] type = "object" -> val.t = "obj"
      [] type = "string" -> val.t = "str"
      [] OTHER -> TRUE

valid_property(val, sub) ==
    /\ is_type(val, sub.type)
    /\ sub.pattern # "" => re_search(sub.pattern, val.v)

valid_item(item, sub) ==
    /\ is_type(item, sub.type)
    /\ \A k \in DOMAIN item.v :
          IF k \in DOMAIN sub.properties
          THEN valid_property(item.v[k], sub.properties[k])
          ELSE sub.additionalProperties
    /\ \A n \in 1..Len(sub.required) : sub.required[n] \in DOMAIN item.v

\* jsonschema.validate(instance, schema): "" or the exception raised.
jsonschema_validate(instance, schema, h) ==
    IF /\ is_type(instance, schema.type)
       /\ \A n \in 1..Len(instance.v) : valid_item(instance.v[n], h[schema.items])
    THEN "" ELSE "ValidationError"

-----------------------------------------------------------------------------
(* parse_response_partial and parse_response_full *)

dict_copy(d) == d

\* "except Exception": every exception modelled here is an Exception.
except_Exception_only_validation(exc) == exc = "ValidationError"

except_Exception(exc) == TRUE

\* The call's outcome: it returns a list (none = FALSE) or None, or raises;
\* exc is the exception its body raised; heap is the heap it leaves.
partial_outcome(emails, exc, left) ==
    IF exc = ""
    THEN [kind |-> "return", none |-> FALSE, value |-> emails.val.v,
          exc |-> "", heap |-> left]
    ELSE [kind |-> IF except_Exception(exc) THEN "return" ELSE "raise",
          none |-> TRUE, value |-> <<>>, exc |-> exc, heap |-> left]

\* The statements after partial_json_parser.loads: they run when it returned.
partial_body(emails, h) ==
    LET schema_with_fields_optional == dict_copy(EMAIL_SCHEMA)
        h2 == [h EXCEPT ![schema_with_fields_optional.items].required = <<>>]
    IN IF emails.exc # ""
       THEN partial_outcome(emails, emails.exc, h)
       ELSE partial_outcome(emails,
                jsonschema_validate(emails.val, schema_with_fields_optional, h2), h2)

parse_response_partial(raw_response, h) ==
    partial_body(partial_json_parser_loads(raw_response), h)

\* Which except clause of parse_response_full takes the exception.
failure_kind_validation_as_parse(exc) ==
    IF exc \in {"JSONDecodeError", "ValidationError"} THEN "ParseFailure"
    ELSE "UnexpectedFailure"

failure_kind(exc) ==
    CASE exc = "JSONDecodeError" -> "ParseFailure"
      [] exc = "ValidationError" -> "SchemaFailure"
      [] OTHER -> "UnexpectedFailure"

\* It returns the list, or reports one failure and raises ValueError.
full_outcome(emails, exc) ==
    IF exc = ""
    THEN [kind |-> "return", value |-> emails.val.v, failure |-> ""]
    ELSE [kind |-> "raise", value |-> <<>>, failure |-> failure_kind(exc)]

full_body(emails, h) ==
    full_outcome(emails, IF emails.exc # "" THEN emails.exc
                         ELSE jsonschema_validate(emails.val, EMAIL_SCHEMA, h))

parse_response_full(raw_response, h) == full_body(json_loads(raw_response), h)

-----------------------------------------------------------------------------
(* The texts the chunk source may deliver *)

Q(s) == <<QUOTE>> \o s \o <<QUOTE>>
KV(k, v) == Q(k) \o <<":">> \o Q(v)

RECURSIVE Join(_)
Join(parts) ==
    IF Len(parts) = 0 THEN <<>>
    ELSE IF Len(parts) = 1 THEN parts[1]
    ELSE parts[1] \o <<",">> \o Join(Tail(parts))

Obj(pairs) == <<"{">> \o Join(pairs) \o <<"}">>
Arr(items) == <<"[">> \o Join(items) \o <<"]">>

RECURSIVE Nest(_)
Nest(n) == IF n = 0 THEN <<>> ELSE <<"[">> \o Nest(n - 1) \o <<"]">>

Fields(name) ==
    <<KV(F_email_name, name), KV(F_sender, <<"s">>), KV(F_subject, <<"u">>),
      KV(F_preview, <<"p">>), KV(F_body, <<"b">>)>>

Dated(name, date) == Obj(Append(Fields(name), KV(F_date, date)))

\* Two records, the second dated: conforms to the schema as written.
D_two ==
    Arr(<<Obj(Fields(<<"a">>)),
          Dated(<<"b">>, <<"2", "0", "2", "4", "-", "0", "1", "-", "0", "5">>)>>)
\* One record that lacks four of the five required fields.
D_missing == Arr(<<Obj(<<KV(F_email_name, <<"a">>)>>)>>)
\* One full record dated 2024-13-40.
D_date1340 ==
    Arr(<<Dated(<<"a">>, <<"2", "0", "2", "4", "-", "1", "3", "-", "4", "0">>)>>)
\* One full record dated 2024-1-5.
D_baddate == Arr(<<Dated(<<"a">>, <<"2", "0", "2", "4", "-", "1", "-", "5">>)>>)
\* One full record and an unknown property.
D_extra == Arr(<<Obj(Append(Fields(<<"a">>), KV(<<"c", "c">>, <<"x">>)))>>)
\* A number where a string must be.
D_wrongtype == <<"[", "{">> \o Q(F_email_name) \o <<":", "1", "2", "}", "]">>
D_notjson ==
    <<"n", "o", "t", " ", "j", "s", "o", "n", " ", "a", "t", " ", "a", "l", "l">>
D_empty == <<>>
\* One full record, then the stream ends inside the second.
D_dangling ==
    <<"[">> \o Obj(Fields(<<"a">>)) \o <<",", "{">> \o Q(F_email_name)
\* Valid JSON nested deeper than the interpreter recurses.
D_deep == Nest(RecursionLimit + 1)
\* The constant NaN, which json.loads accepts and JSON does not hold.
D_nan == L_NaN
D_none == Arr(<<>>)
\* A record that is not inside an array.
D_object == Obj(<<KV(F_email_name, <<"a">>)>>)

Docs ==
    {D_two, D_missing, D_date1340, D_baddate, D_extra, D_wrongtype, D_notjson,
     D_empty, D_dangling, D_deep, D_nan, D_none, D_object}

-----------------------------------------------------------------------------
(* main(): one request *)

VARIABLES
    heap,                \* the "items" dict of EMAIL_SCHEMA
    source,              \* all the text the chunk source holds for the request
    delivered,           \* how many of its characters it has yielded
    raw_response,        \* the buffer
    partial_emails,      \* the progress state
    new_partial_emails,  \* the last outcome of parse_response_partial
    pc,                  \* "streaming", "success", "failed", "interrupted", "aborted"
    status,              \* the status line: [kind, n]
    tabs,                \* what the Pretty View, JSON and CSV tabs show: [kind, emails]
    events,              \* the record count of every progress event, in order
    swallowed,           \* the exceptions parse_response_partial caught
    fullCalls,           \* how often parse_response_full was called
    emails,              \* what parse_response_full returned
    reported,            \* the failure kinds written to error_container
    st_error             \* whether main's except clause showed its error

vars ==
    <<heap, source, delivered, raw_response, partial_emails, new_partial_emails,
      pc, status, tabs, events, swallowed, fullCalls, emails, reported, st_error>>

Init ==
    /\ heap = InitialHeap
    /\ source \in Docs
    /\ delivered = 0
    /\ raw_response = <<>>
    /\ partial_emails = <<>>
    /\ new_partial_emails = [kind |-> "return", none |-> TRUE, value |-> <<>>, exc |-> ""]
    /\ pc = "streaming"
    /\ status = [kind |-> "empty", n |-> 0]
    /\ tabs = [kind |-> "empty", emails |-> <<>>]
    /\ events = <<>>
    /\ swallowed = {}
    /\ fullCalls = 0
    /\ emails = <<>>
    /\ reported = <<>>
    /\ st_error = FALSE

\* raw_response += chunk
accumulate_replace(raw, chunk) == chunk

accumulate(raw, chunk) == raw \o chunk

\* new_partial_emails and len(new_partial_emails) > len(partial_emails)
is_progress_or_equal(new, old) ==
    ~new.none /\ Len(new.value) > 0 /\ Len(new.value) >= Len(old)

is_progress(new, old) ==
    ~new.none /\ Len(new.value) > 0 /\ Len(new.value) > Len(old)

\* partial_emails = new_partial_emails
update_progress_extend(old, new) == old \o new

update_progress(old, new) == new

\* The final Pretty View reads the five fields of every record by subscript.
renders(list) ==
    \A n \in 1..Len(list) : \A m \in 1..Len(REQUIRED) : REQUIRED[m] \in DOMAIN list[n].v

\* The rest of the loop body, res being parse_response_partial's outcome.
AfterPartial(res) ==
    /\ heap' = res.heap
    /\ new_partial_emails' = [kind |-> res.kind, none |-> res.none,
                              value |-> res.value, exc |-> res.exc]
    /\ IF res.kind = "raise"
       THEN /\ pc' = "aborted"
            /\ st_error' = TRUE
            /\ UNCHANGED <<partial_emails, status, tabs, events, swallowed>>
       ELSE /\ pc' = pc
            /\ st_error' = st_error
            /\ swallowed' = IF res.exc = "" THEN swallowed
                             ELSE swallowed \cup {res.exc}
            /\ IF is_progress(res, partial_emails)
               THEN /\ partial_emails' = update_progress(partial_emails, res.value)
                    /\ status' = [kind |-> "partial", n |-> Len(partial_emails')]
                    /\ tabs' = [kind |-> "partial", emails |-> partial_emails']
                    /\ events' = Append(events, Len(partial_emails'))
               ELSE UNCHANGED <<partial_emails, status, tabs, events>>

Receive(buf) ==
    /\ raw_response' = buf
    /\ AfterPartial(parse_response_partial(buf, heap))

\* One turn of "for chunk in stream_response(input_text)".
Chunk ==
    /\ pc = "streaming"
    /\ delivered < Len(source)
    /\ \E n \in (1..MaxChunk) \cup {Len(source) - delivered} :
         /\ delivered + n <= Len(source)
         /\ delivered' = delivered + n
         /\ Receive(accumulate(raw_response,
                               SubSeq(source, delivered + 1, delivered + n)))
    /\ UNCHANGED <<source, fullCalls, emails, reported>>

\* What follows parse_response_full, res being its outcome.
AfterFull(res) ==
    IF res.kind = "raise"
    THEN /\ reported' = Append(reported, res.failure)
         /\ st_error' = TRUE
         /\ pc' = "failed"
         /\ UNCHANGED <<emails, status, tabs>>
    ELSE /\ emails' = res.value
         /\ status' = [kind |-> "success", n |-> Len(res.value)]
         /\ reported' = reported
         /\ IF renders(res.value)
            THEN /\ tabs' = [kind |-> "final", emails |-> res.value]
                 /\ pc' = "success"
                 /\ st_error' = st_error
            ELSE /\ tabs' = tabs
                 /\ pc' = "failed"
                 /\ st_error' = TRUE

\* The chunk source is exhausted: parse_response_full, then the final views.
EndOfStream ==
    /\ pc = "streaming"
    /\ delivered = Len(source)
    /\ fullCalls' = fullCalls + 1
    /\ AfterFull(parse_response_full(raw_response, heap))
    /\ UNCHANGED <<heap, source, delivered, raw_response, partial_emails,
                   new_partial_emails, events, swallowed>>

\* The handler also runs the final validation.
Interrupt_then_validates ==
    /\ pc = "streaming"
    /\ pc' = "interrupted"
    /\ st_error' = TRUE
    /\ fullCalls' = fullCalls + 1
    /\ UNCHANGED <<heap, source, delivered, raw_response, partial_emails,
                   new_partial_emails, status, tabs, events, swallowed,
                   emails, reported>>

\* The chunk source raises instead of yielding: main's except clause.
Interrupt ==
    /\ pc = "streaming"
    /\ pc' = "interrupted"
    /\ st_error' = TRUE
    /\ UNCHANGED <<heap, source, delivered, raw_response, partial_emails,
                   new_partial_emails, status, tabs, events, swallowed,
                   fullCalls, emails, reported>>

Next == Chunk \/ EndOfStream \/ Interrupt

Spec == Init /\ [][Next]_vars

-----------------------------------------------------------------------------
(* What the claims speak of *)

\* The text is a JSON array that satisfies the schema as the source writes it.
StrictlyValid(text) ==
    /\ json_loads(text).exc = ""
    /\ jsonschema_validate(json_loads(text).val, EMAIL_SCHEMA, InitialHeap) = ""

\* A wrong type, a date that does not match the pattern, or an unknown property.
RelaxedHeap == [InitialHeap EXCEPT ![ITEMS].required = <<>>]
ViolatesShape(val) == jsonschema_validate(val, EMAIL_SCHEMA, RelaxedHeap) # ""

\* The objects the text opens and closes, and where the last one closes.
\* (In the texts of Docs a brace always delimits an object, and where
\* parse_response_partial returns a list the objects are its items.)
Positions(text, char) == {p \in 1..Len(text) : text[p] = char}

Objects(text) ==
    [opened |-> Cardinality(Positions(text, "{")),
     closed |-> Cardinality(Positions(text, "}")),
     last |-> IF Positions(text, "}") = {} THEN 0
              ELSE CHOOSE p \in Positions(text, "}") :
                      \A q \in Positions(text, "}") : q <= p]

\* The records the text holds complete, decoded strictly.
ClosedRecords(text) ==
    IF Objects(text).closed = 0 THEN <<>>
    ELSE json_loads(SubSeq(text, 1, Objects(text).last) \o <<"]">>).val.v

IsPrefix(a, b) == Len(a) <= Len(b) /\ SubSeq(b, 1, Len(a)) = a

\* part has some of the fields of whole, each value a prefix of whole's.
PartialOf(part, whole) ==
    /\ part.t = "obj"
    /\ DOMAIN part.v \subseteq DOMAIN whole.v
    /\ \A k \in DOMAIN part.v :
          part.v[k].t = whole.v[k].t /\ IsPrefix(part.v[k].v, whole.v[k].v)

NonDecreasing(counts) ==
    \A m, n \in 1..Len(counts) : m <= n => counts[m] <= counts[n]

-----------------------------------------------------------------------------
(* The claims *)

\* C1 (as claimed): parse_response_partial leaves the strict schema alone:
\* EMAIL_SCHEMA["items"]["required"] stays the five required fields.
C1_StrictSchemaUntouched == heap[EMAIL_SCHEMA.items].required = REQUIRED

\* C2 (as claimed): once the loop has run and parse_response_full was called,
\* success is reported only for a buffer that satisfies the schema as written;
\* for any other buffer a failure is reported and no success is shown.
C2_FailClosed ==
    (fullCalls = 1 /\ delivered > 0 /\ ~StrictlyValid(raw_response))
        => (reported # <<>> /\ status.kind # "success")

\* C3: a chunk emits a progress event exactly when the partial parse of the
\* buffer is a list longer than the progress state, which it then replaces;
\* otherwise the progress state, the status and the tabs stay as they were.
\* The counts of the events never decrease.
C3_Step(res) ==
    IF ~res.none /\ Len(res.value) > Len(partial_emails)
    THEN /\ partial_emails' = res.value
         /\ events' = Append(events, Len(res.value))
         /\ status' = [kind |-> "partial", n |-> Len(res.value)]
         /\ tabs' = [kind |-> "partial", emails |-> res.value]
    ELSE UNCHANGED <<partial_emails, events, status, tabs>>

C3_ProgressOnGrowthOnly ==
    /\ [][delivered' > delivered
            => C3_Step(parse_response_partial(raw_response', heap))]_vars
    /\ [](NonDecreasing(events))

\* C3's case: two events were emitted, and the last chunk parsed to a list
\* that is no longer than the progress state.
C3_Witness ==
    /\ Len(events) = 2
    /\ ~new_partial_emails.none
    /\ Len(new_partial_emails.value) = Len(partial_emails)
    /\ new_partial_emails.value # partial_emails

\* C4 (as claimed): every record parse_response_partial returns is complete
\* in the buffer, so the list is no longer than the objects the buffer
\* closes; one full record and a dangling second object give one record.
C4_ExcludesIncompleteObject ==
    (delivered > 0 /\ ~new_partial_emails.none)
        => /\ Len(new_partial_emails.value) <= Objects(raw_response).closed
           /\ raw_response = D_dangling => Len(new_partial_emails.value) = 1

\* C4 (amended): the list holds every object the buffer opens: the complete
\* ones as they are, and the incomplete last one as a partial record, with
\* some of the fields of the full record and a prefix of each value.  One
\* full record and a dangling second object give two records, the second
\* empty.
C4_KeepsIncompleteObject ==
    (delivered > 0 /\ ~new_partial_emails.none)
        => LET list == new_partial_emails.value
               n == Objects(raw_response)
           IN /\ Len(list) = n.opened
              /\ SubSeq(list, 1, n.closed) = ClosedRecords(raw_response)
              /\ (n.opened > n.closed /\ json_loads(source).exc = "")
                    => PartialOf(list[n.opened], json_loads(source).val.v[n.opened])
              /\ raw_response = D_dangling
                    => Len(list) = 2 /\ DOMAIN list[2].v = {}

\* C4's case: the buffer is one full record followed by a dangling object.
C4_Witness ==
    /\ raw_response = D_dangling
    /\ ~new_partial_emails.none
    /\ Len(new_partial_emails.value) = 2

\* C5: parse_response_partial returns, a list or None, and never raises; a
\* chunk whose parse fails emits no event and the loop goes on; a request
\* that reaches the final validation has consumed every chunk.
C5_PartialNeverRaises ==
    /\ [](new_partial_emails.kind = "return" /\ pc # "aborted")
    /\ [](fullCalls = 1 => delivered = Len(source))
    /\ [][(delivered' > delivered /\ new_partial_emails'.none)
            => (events' = events /\ pc' = "streaming")]_vars

\* C5's case: chunks failed to parse and failed to validate, and the stream
\* was still read to its end.
C5_Witness ==
    /\ fullCalls = 1
    /\ {"MalformedJSON", "ValidationError"} \subseteq swallowed

\* C6: parse_response_full is called at most once, on the whole text and
\* only when the chunk source is exhausted; a request that ends without
\* interruption has called it; an interrupted one never calls it and keeps
\* showing the partial results it had.
C6_FinalOnceAtEnd ==
    /\ fullCalls <= 1
    /\ fullCalls = 1 => (delivered = Len(source) /\ raw_response = source)
    /\ pc \in {"success", "failed"} => fullCalls = 1
    /\ pc = "interrupted"
          => /\ fullCalls = 0
             /\ reported = <<>>
             /\ events # <<>>
                   => /\ status = [kind |-> "partial", n |-> Len(partial_emails)]
                      /\ tabs = [kind |-> "partial", emails |-> partial_emails]

\* C6's case: the source was interrupted midway, after a progress event.
C6_Witness ==
    /\ pc = "interrupted"
    /\ delivered < Len(source)
    /\ Len(partial_emails) = 1
    /\ tabs.emails = partial_emails

\* C7 (as claimed): a buffer that json.loads cannot decode is a ParseFailure;
\* a buffer that parses and has a wrong type, a bad date or an unknown
\* property is a SchemaFailure; the date 2024-13-40 is such a SchemaFailure;
\* any other exception is an UnexpectedFailure; one kind is reported per
\* failure.
C7_ClassifiedAsClaimed ==
    fullCalls = 1
        => /\ Len(reported) <= 1
           /\ json_loads(raw_response).exc = "JSONDecodeError"
                 => reported = <<"ParseFailure">>
           /\ (json_loads(raw_response).exc = ""
                 /\ ViolatesShape(json_loads(raw_response).val))
                 => reported = <<"SchemaFailure">>
           /\ json_loads(raw_response).exc \notin {"", "JSONDecodeError"}
                 => reported = <<"UnexpectedFailure">>
           /\ raw_response = D_date1340 => reported = <<"SchemaFailure">>

\* C7 (amended): the kind follows the exception: JSONDecodeError from
\* json.loads is a ParseFailure; a buffer that json.loads accepts and that
\* has a wrong type, a date not matching the pattern or an unknown property
\* is a SchemaFailure; any other exception is an UnexpectedFailure; one kind
\* is reported per failure.  The date 2024-13-40 matches the pattern and is
\* no failure.
C7_ClassifiedByException ==
    fullCalls = 1
        => /\ Len(reported) <= 1
           /\ json_loads(raw_response).exc = "JSONDecodeError"
                 => reported = <<"ParseFailure">>
           /\ (json_loads(raw_response).exc = ""
                 /\ ViolatesShape(json_loads(raw_response).val))
                 => reported = <<"SchemaFailure">>
           /\ json_loads(raw_response).exc \notin {"", "JSONDecodeError"}
                 => reported = <<"UnexpectedFailure">>
           /\ raw_response = D_date1340 => reported = <<>>

\* C7's case: a full record whose date does not match the pattern.
C7_Witness ==
    /\ raw_response = D_baddate
    /\ reported = <<"SchemaFailure">>

\* C8: for a text that satisfies the schema as written, however it is cut
\* into chunks, the final validation returns what parsing the text in one
\* piece returns: the same records in the same order.
C8_FinalEqualsDirect ==
    (fullCalls = 1 /\ StrictlyValid(source))
        => /\ pc = "success"
           /\ emails = parse_response_full(source, InitialHeap).value
           /\ status = [kind |-> "success", n |-> Len(emails)]
           /\ tabs = [kind |-> "final", emails |-> emails]

\* C8's case: the two-record text, streamed in pieces, validated at the end.
C8_Witness ==
    /\ pc = "success"
    /\ source = D_two
    /\ events = <<1, 2>>
    /\ Len(emails) = 2
    /\ emails[1].v[F_email_name].v = <<"a">>
    /\ emails[2].v[F_email_name].v = <<"b">>

\* C9 (as claimed): once parse_response_full has run, what is shown comes
\* from its outcome: after a success the status and the tabs show the final
\* list, and after a reported failure neither still shows a partial result.
C9_FinalSupersedesPartial ==
    fullCalls = 1
        => /\ pc = "success"
                 => /\ status = [kind |-> "success", n |-> Len(emails)]
                    /\ tabs = [kind |-> "final", emails |-> emails]
           /\ reported # <<>>
                 => (status.kind # "partial" /\ tabs.kind # "partial")

\* C10: when the final validation succeeds, no progress event of the
\* request counted more records than the final list holds.
C10_EventsWithinFinal ==
    status.kind = "success"
        => \A n \in 1..Len(events) : events[n] <= Len(emails)

\* C10's case: events for one and for two records, then a final list of two.
C10_Witness ==
    /\ status.kind = "success"
    /\ Len(events) = 2
    /\ events[2] = Len(emails)

=============================================================================
